---- MODULE Spec2Model ----
(***************************************************************************)
(* A model of src/fs.rs of webdav-handler-rs: the filesystem backend       *)
(* contract (trait DavFileSystem with its default methods), the metadata   *)
(* contract (trait DavMetaData, with the default etag derivation), the     *)
(* directory-entry contract (trait DavDirEntry) and OpenOptions.           *)
(*                                                                         *)
(* Three specifications share the module:                                  *)
(*   SpecMeta  metadata snapshots and the default etag/is_file/is_symlink  *)
(*   SpecDir   directory entries and their derived is_dir/is_file/...      *)
(*   SpecFs    filesystem handles, duplication and the optional operations *)
(***************************************************************************)
EXTENDS Integers, Sequences, FiniteSets, TLC

VARIABLES
    overflow_checks, \* build profile: TRUE = arithmetic overflow panics (debug)
    snap,            \* SpecMeta: the two metadata snapshots under examination
    etags,           \* SpecMeta: result of etag() on each snapshot, or None
    mcall,           \* SpecMeta: the last is_file()/is_symlink() call and its result
    ent,             \* SpecDir: the directory entry under examination
    eret,            \* SpecDir: results of is_dir()/is_file()/is_symlink() on it
    heap,            \* SpecFs: backend state, by address
    handles,         \* SpecFs: the live Box<DavFileSystem> handles
    fcall            \* SpecFs: the last filesystem call and its result

vars == <<overflow_checks, snap, etags, mcall, ent, eret, heap, handles, fcall>>

None == [k |-> "none"]

(***************************************************************************)
(* FsError and FsResult<T>                                                 *)
(***************************************************************************)
FsError == {"NotImplemented", "GeneralFailure", "Exists", "NotFound", "Forbidden",
            "InsufficientStorage", "LoopDetected", "PathTooLong", "TooLarge", "IsRemote"}

Ok(v) == [k |-> "ok", v |-> v]
Err(e) == [k |-> "err", e |-> e]

\* the notimplemented! macro: whatever the method name, Err(FsError::NotImplemented)
notimplemented_wrong(method) == Err("GeneralFailure")
notimplemented(method) == Err("NotImplemented")

(***************************************************************************)
(* u64 arithmetic.  A u64 is kept as its 16 hexadecimal digits, least      *)
(* significant first, so that the full 64-bit width is modelled.           *)
(***************************************************************************)
U64Digits == 16
MICROS_PER_SEC == 1000000
NANOS_PER_MICRO == 1000

Pad(ds, n) == [i \in 1..n |-> IF i <= Len(ds) THEN ds[i] ELSE 0]
Reverse(s) == [i \in 1..Len(s) |-> s[Len(s) + 1 - i]]
\* a number from its hexadecimal digits written most significant first
FromHex(hs, n) == Pad(Reverse(hs), n)
U64(hs) == FromHex(hs, U64Digits)

RECURSIVE MulDigits(_, _, _, _)
\* digits i.. of x*k + carry, and the carry out of the top digit
MulDigits(x, k, i, carry) ==
    IF i > Len(x) THEN [d |-> <<>>, c |-> carry]
    ELSE LET p == x[i] * k + carry
             r == MulDigits(x, k, i + 1, p \div 16)
         IN  [d |-> <<p % 16>> \o r.d, c |-> r.c]

\* x * k and x + a in the width of x: the wrapped value and whether it overflowed
MulSmall(x, k) == LET r == MulDigits(x, k, 1, 0) IN [val |-> r.d, overflow |-> r.c # 0]
AddSmall(x, a) == LET r == MulDigits(x, 1, 1, a) IN [val |-> r.d, overflow |-> r.c # 0]

(***************************************************************************)
(* format!("{:x}", n): lower-case hexadecimal, no leading zeros, "0" for 0 *)
(* A string is a sequence of one-character strings.                        *)
(***************************************************************************)
HexChars == <<"0", "1", "2", "3", "4", "5", "6", "7", "8", "9", "a", "b", "c", "d", "e", "f">>

TopDigit(x) == IF \E i \in 1..Len(x) : x[i] # 0
               THEN CHOOSE i \in 1..Len(x) : x[i] # 0 /\ \A j \in (i + 1)..Len(x) : x[j] = 0
               ELSE 1

LowerHex(x) == LET n == TopDigit(x) IN [i \in 1..n |-> HexChars[x[n + 1 - i] + 1]]

(***************************************************************************)
(* SystemTime and Duration (std::time).  A SystemTime is a Duration before *)
(* or after UNIX_EPOCH; a Duration is whole seconds (u64) and nanoseconds. *)
(***************************************************************************)
Duration(secs, nanos) == [secs |-> secs, nanos |-> nanos]
After(d) == [before |-> FALSE, d |-> d]
Before(d) == [before |-> TRUE, d |-> d]

\* t.duration_since(UNIX_EPOCH): Err when t is earlier than the epoch
duration_since_epoch(t) == IF t.before THEN [k |-> "err"] ELSE Ok(t.d)
as_secs(d) == d.secs
subsec_nanos(d) == d.nanos

(***************************************************************************)
(* trait DavMetaData.  A snapshot holds what its implementation answers    *)
(* for the required methods; impl names the implementation: "default"      *)
(* overrides nothing, "link" overrides is_file and is_symlink.             *)
(***************************************************************************)
MetaData(len, modified, is_dir, impl) ==
    [len |-> len, modified |-> modified, is_dir |-> is_dir, impl |-> impl]

len(self) == self.len
modified(self) == self.modified
is_dir(self) == self.is_dir

Panic == [k |-> "panic"]
Str(s) == [k |-> "str", s |-> s]

\* t.as_secs() * 1000000 + t.subsec_nanos() as u64 / 1000, in u64:
\* an overflow panics when overflow checks are on and wraps otherwise
EtagMicros(t, checks) ==
    LET m == MulSmall(as_secs(t), MICROS_PER_SEC)
        s == AddSmall(m.val, subsec_nanos(t) \div NANOS_PER_MICRO)
    IN  IF checks /\ (m.overflow \/ s.overflow) THEN Panic ELSE Ok(s.val)

DavMetaData_etag(self, checks) ==
    LET m == modified(self)
        d == IF m.k = "ok" THEN duration_since_epoch(m.v) ELSE [k |-> "err"]
    IN  IF m.k = "ok" /\ d.k = "ok"
        THEN LET T == EtagMicros(d.v, checks)
             IN  IF T.k = "panic" THEN Panic
                 ELSE Str(LowerHex(len(self)) \o <<"-">> \o LowerHex(T.v))
        ELSE Str(LowerHex(len(self)))

DavMetaData_is_file_same(self) == is_dir(self)
DavMetaData_is_file(self) == ~is_dir(self)

DavMetaData_is_symlink(self) == FALSE

\* dynamic dispatch on the implementation behind a Box<DavMetaData>
md_etag(self, checks) == DavMetaData_etag(self, checks)
md_is_file(self) == IF self.impl = "link" THEN FALSE ELSE DavMetaData_is_file(self)
md_is_symlink(self) == IF self.impl = "link" THEN TRUE ELSE DavMetaData_is_symlink(self)

(***************************************************************************)
(* SpecMeta: two metadata snapshots, as metadata() calls return them, and  *)
(* the default methods applied to them.                                    *)
(***************************************************************************)
MaxU64 == U64(<<15, 15, 15, 15, 15, 15, 15, 15, 15, 15, 15, 15, 15, 15, 15, 15>>)
\* 18446744073709 = floor((2^64 - 1) / 1000000), the last second count whose
\* microseconds fit in u64, and the second after it
LastFitSecs == U64(<<1, 0, 12, 6, 15, 7, 10, 0, 11, 5, 14, 13>>)
FirstOverflowSecs == U64(<<1, 0, 12, 6, 15, 7, 10, 0, 11, 5, 14, 14>>)
\* 2^58 seconds: 2^58 * 1000000 is a multiple of 2^64
WrapToZeroSecs == U64(<<4, 0, 0, 0, 0, 0, 0, 0, 0, 0, 0, 0, 0, 0, 0>>)
\* i64::MAX, the largest tv_sec a SystemTime holds
MaxTimeSecs == U64(<<7, 15, 15, 15, 15, 15, 15, 15, 15, 15, 15, 15, 15, 15, 15, 15>>)

Lens == {U64(<<0>>), U64(<<1, 15>>), MaxU64}

Times == {Before(Duration(U64(<<1>>), 0)),
          After(Duration(U64(<<0>>), 0)),
          After(Duration(U64(<<0>>), 999)),
          After(Duration(U64(<<0>>), 1000)),
          After(Duration(U64(<<1>>), 0)),
          After(Duration(LastFitSecs, 551615999)),
          After(Duration(LastFitSecs, 551616000)),
          After(Duration(FirstOverflowSecs, 0)),
          After(Duration(WrapToZeroSecs, 0)),
          After(Duration(MaxTimeSecs, 999999999))}

ModifiedResults == {Ok(t) : t \in Times} \cup {Err("GeneralFailure"), Err("NotImplemented")}

MetaPool == {MetaData(l, m, FALSE, "default") : l \in Lens, m \in ModifiedResults}
            \cup {MetaData(U64(<<0>>), Ok(After(Duration(U64(<<1>>), 0))), TRUE, "default"),
                  MetaData(U64(<<1, 15>>), Err("GeneralFailure"), TRUE, "default"),
                  MetaData(U64(<<1, 15>>), Ok(After(Duration(U64(<<1>>), 0))), FALSE, "link")}

Slots == 1..2

IdleMeta == /\ overflow_checks = FALSE
            /\ snap = <<>>
            /\ etags = <<>>
            /\ mcall = None
IdleDir == ent = None /\ eret = None
IdleFs == heap = <<>> /\ handles = <<>> /\ fcall = None

InitMeta == /\ overflow_checks \in BOOLEAN
            /\ snap \in [Slots -> MetaPool]
            /\ etags = [i \in Slots |-> None]
            /\ mcall = None
            /\ IdleDir
            /\ IdleFs

CallEtag(i) ==
    /\ etags' = [etags EXCEPT ![i] = md_etag(snap[i], overflow_checks)]
    /\ UNCHANGED <<overflow_checks, snap, mcall, ent, eret, heap, handles, fcall>>

CallMdIsFile(i) ==
    /\ mcall' = [op |-> "is_file", slot |-> i, ret |-> md_is_file(snap[i])]
    /\ UNCHANGED <<overflow_checks, snap, etags, ent, eret, heap, handles, fcall>>

CallMdIsSymlink(i) ==
    /\ mcall' = [op |-> "is_symlink", slot |-> i, ret |-> md_is_symlink(snap[i])]
    /\ UNCHANGED <<overflow_checks, snap, etags, ent, eret, heap, handles, fcall>>

NextMeta ==
    \/ \E i \in Slots : CallEtag(i)
    \/ \E i \in Slots : CallMdIsFile(i)
    \/ \E i \in Slots : CallMdIsSymlink(i)

SpecMeta == InitMeta /\ [][NextMeta]_vars

(***************************************************************************)
(* Reading an etag back: the true microsecond count, in a width that       *)
(* cannot overflow, and the numbers a tag's two parts spell.               *)
(***************************************************************************)
WideDigits == U64Digits + 6

TrueMicros(d) ==
    AddSmall(MulSmall(Pad(d.secs, WideDigits), MICROS_PER_SEC).val,
             d.nanos \div NANOS_PER_MICRO).val

HexDigitOf(c) == CHOOSE v \in 0..15 : HexChars[v + 1] = c
HexValue(s, n) == FromHex([i \in 1..Len(s) |-> HexDigitOf(s[i])], n)
HasDash(s) == \E i \in 1..Len(s) : s[i] = "-"
DashAt(s) == CHOOSE i \in 1..Len(s) : s[i] = "-"
LenPart(s) == IF HasDash(s) THEN SubSeq(s, 1, DashAt(s) - 1) ELSE s
TimePart(s) == SubSeq(s, DashAt(s) + 1, Len(s))

AtOrAfterEpoch(md) == modified(md).k = "ok" /\ ~modified(md).v.before
MicroTime(md) == [secs |-> modified(md).v.d.secs,
                  micros |-> modified(md).v.d.nanos \div NANOS_PER_MICRO]

\* C5: a metadata implementation that does not override is_file answers
\* is_file() = ~is_dir(), and one that does not override is_symlink answers
\* is_symlink() = FALSE, whatever is_dir() and len() are.
C5_MetaDefaults ==
    /\ (mcall # None /\ mcall.op = "is_file" /\ snap[mcall.slot].impl = "default")
          => mcall.ret = ~is_dir(snap[mcall.slot])
    /\ (mcall # None /\ mcall.op = "is_symlink" /\ snap[mcall.slot].impl = "default")
          => mcall.ret = FALSE

C5_Witness ==
    /\ mcall # None /\ mcall.op = "is_file"
    /\ snap[mcall.slot].impl = "default" /\ is_dir(snap[mcall.slot])
    /\ mcall.ret = FALSE

\* C2: two snapshots with the same len and the same successful modified() have
\* identical etag() strings; two that differ in len or in modified() (at
\* microsecond resolution, at or after the epoch) have different etag() strings.
C2_EtagIdentifies ==
    (etags[1] # None /\ etags[2] # None) =>
        /\ (/\ len(snap[1]) = len(snap[2])
            /\ modified(snap[1]).k = "ok"
            /\ modified(snap[1]) = modified(snap[2]))
              => etags[1] = etags[2]
        /\ (/\ AtOrAfterEpoch(snap[1]) /\ AtOrAfterEpoch(snap[2])
            /\ \/ len(snap[1]) # len(snap[2])
               \/ MicroTime(snap[1]) # MicroTime(snap[2]))
              => /\ etags[1].k = "str" /\ etags[2].k = "str"
                 /\ etags[1].s # etags[2].s

\* C3: etag() is hex(len) "-" hex(T), T the whole microseconds from the epoch to
\* modified(), when modified() succeeds at or after the epoch, and hex(len)
\* alone when modified() fails or is before the epoch.
C3_EtagFormat ==
    \A i \in Slots : etags[i] # None =>
        IF AtOrAfterEpoch(snap[i])
        THEN etags[i] = Str(LowerHex(len(snap[i])) \o <<"-">>
                            \o LowerHex(TrueMicros(modified(snap[i]).v.d)))
        ELSE etags[i] = Str(LowerHex(len(snap[i])))

\* C9: etag() never faults, and for a time at or after the epoch the value its
\* second part spells is the true microsecond count, not a wrapped one.
C9_EtagNoOverflow ==
    \A i \in Slots : etags[i] # None =>
        /\ etags[i].k = "str"
        /\ AtOrAfterEpoch(snap[i]) =>
              /\ HasDash(etags[i].s)
              /\ HexValue(TimePart(etags[i].s), WideDigits)
                    = TrueMicros(modified(snap[i]).v.d)

(***************************************************************************)
(* trait DavDirEntry.  An entry holds what its metadata() returns and, for *)
(* an implementation that overrides is_dir with a cheap type hint (such as *)
(* dirent.d_type), that hint; None when is_dir is not overridden.          *)
(***************************************************************************)
Hint(b) == [k |-> "hint", v |-> b]
DirEntry(name, meta, hint) == [name |-> name, meta |-> meta, hint |-> hint]

name(self) == self.name
metadata(self) == self.meta

\* Ok(self.metadata()?.is_dir()): the ? returns the error of metadata() as it is
DavDirEntry_is_dir(self) ==
    LET m == metadata(self) IN IF m.k = "err" THEN Err(m.e) ELSE Ok(is_dir(m.v))

DavDirEntry_is_file(self) ==
    LET m == metadata(self) IN IF m.k = "err" THEN Err(m.e) ELSE Ok(md_is_file(m.v))

DavDirEntry_is_symlink_false(self) == Ok(FALSE)
DavDirEntry_is_symlink(self) ==
    LET m == metadata(self) IN IF m.k = "err" THEN Err(m.e) ELSE Ok(md_is_symlink(m.v))

\* dynamic dispatch on the implementation behind a Box<DavDirEntry>
de_is_dir(self) == IF self.hint # None THEN Ok(self.hint.v) ELSE DavDirEntry_is_dir(self)
de_is_file(self) == DavDirEntry_is_file(self)
de_is_symlink(self) == DavDirEntry_is_symlink(self)

(***************************************************************************)
(* SpecDir: the entries a read_dir() sequence yields, one at a time, and   *)
(* the derived methods applied to the current one.                         *)
(***************************************************************************)
EntryMetas == {Ok(MetaData(U64(<<1, 15>>), Ok(After(Duration(U64(<<1>>), 0))), FALSE, "default")),
               Ok(MetaData(U64(<<0>>), Ok(After(Duration(U64(<<1>>), 0))), TRUE, "default")),
               Ok(MetaData(U64(<<1, 15>>), Err("GeneralFailure"), FALSE, "link")),
               Err("NotFound"),
               Err("Forbidden")}

EntryPool == {DirEntry(n, m, h) : n \in {<<97>>, <<255, 98>>}, m \in EntryMetas,
                                  h \in {None, Hint(TRUE), Hint(FALSE)}}

NoResults == [is_dir |-> None, is_file |-> None, is_symlink |-> None]

InitDir == /\ ent \in EntryPool
           /\ eret = NoResults
           /\ IdleMeta
           /\ IdleFs

\* Iterator::next() on the DavReadDir: the next entry, nothing asked of it yet
NextEntry ==
    /\ ent' \in EntryPool \ {ent}
    /\ eret' = NoResults
    /\ UNCHANGED <<overflow_checks, snap, etags, mcall, heap, handles, fcall>>

CallDeIsDir ==
    /\ eret' = [eret EXCEPT !.is_dir = de_is_dir(ent)]
    /\ UNCHANGED <<overflow_checks, snap, etags, mcall, ent, heap, handles, fcall>>

CallDeIsFile ==
    /\ eret' = [eret EXCEPT !.is_file = de_is_file(ent)]
    /\ UNCHANGED <<overflow_checks, snap, etags, mcall, ent, heap, handles, fcall>>

CallDeIsSymlink ==
    /\ eret' = [eret EXCEPT !.is_symlink = de_is_symlink(ent)]
    /\ UNCHANGED <<overflow_checks, snap, etags, mcall, ent, heap, handles, fcall>>

NextDir == NextEntry \/ CallDeIsDir \/ CallDeIsFile \/ CallDeIsSymlink

SpecDir == InitDir /\ [][NextDir]_vars

Negated(r) == IF r.k = "ok" THEN Ok(~r.v) ELSE r

\* C6: an entry that does not override is_file answers is_file() with the
\* negation of what its own is_dir() answers, also when is_dir is overridden
\* with a type hint; one that does not override is_symlink answers Ok(false).
C6_EntryDefaults ==
    /\ (eret.is_dir # None /\ eret.is_file # None) => eret.is_file = Negated(eret.is_dir)
    /\ eret.is_symlink # None => eret.is_symlink = Ok(FALSE)

OpenOptions(read, write, append, truncate, create, create_new) ==
    [read |-> read, write |-> write, append |-> append, truncate |-> truncate,
     create |-> create, create_new |-> create_new]

OpenOptions_new == OpenOptions(FALSE, FALSE, FALSE, FALSE, FALSE, FALSE)

OpenOptions_read_write == OpenOptions(TRUE, TRUE, FALSE, FALSE, FALSE, FALSE)
OpenOptions_read == OpenOptions(TRUE, FALSE, FALSE, FALSE, FALSE, FALSE)

OpenOptions_write == OpenOptions(FALSE, TRUE, FALSE, FALSE, FALSE, FALSE)

Preset(p) == CASE p = "new" -> OpenOptions_new
               [] p = "read" -> OpenOptions_read
               [] p = "write" -> OpenOptions_write

(***************************************************************************)
(* A backend.  The trait leaves open, read_dir, metadata and Clone to the  *)
(* implementation; the one modelled here keeps a tree of nodes behind a    *)
(* shared pointer (the heap address in its tree field) and implements      *)
(* nothing but the three required operations.                              *)
(***************************************************************************)
Root == "/"
Children == {"/f", "/g"}
Paths == {Root} \cup Children
Absent == [k |-> "absent"]

DirNode == MetaData(U64(<<0>>), Ok(After(Duration(U64(<<1>>), 0))), TRUE, "default")
FileNode(l, t) == MetaData(l, Ok(t), FALSE, "default")

WriteLens == {U64(<<0>>), U64(<<1, 15>>)}
WriteTimes == {After(Duration(U64(<<1>>), 0)), After(Duration(U64(<<2>>), 500000000))}

InitialTree == [p \in Paths |->
                   CASE p = Root -> DirNode
                     [] p = "/f" -> FileNode(U64(<<1, 15>>), After(Duration(U64(<<1>>), 0)))
                     [] OTHER -> Absent]

Fs(tree) == [tree |-> tree]

fs_metadata(self, h, path) ==
    IF h[self.tree][path] = Absent THEN Err("NotFound") ELSE Ok(h[self.tree][path])

fs_open(self, h, path, options) ==
    CASE h[self.tree][path] # Absent /\ options.create_new -> Err("Exists")
      [] h[self.tree][path] = Absent /\ ~options.create /\ ~options.create_new -> Err("NotFound")
      [] OTHER -> Ok([path |-> path, options |-> options])

fs_read_dir(self, h, path) ==
    IF h[self.tree][path] = Absent THEN Err("NotFound")
    ELSE Ok({c \in Children : h[self.tree][c] # Absent})

\* #[derive(Clone)] on a backend holding a shared pointer: the copy holds the
\* same pointer, and nothing is allocated
Fs_clone(self, h) == [fs |-> Fs(self.tree), heap |-> h]

(***************************************************************************)
(* trait DavFileSystem: the default methods                                *)
(***************************************************************************)
DavFileSystem_symlink_metadata_notimplemented(self, h, path) == notimplemented("symlink_metadata")
DavFileSystem_symlink_metadata(self, h, path) == fs_metadata(self, h, path)

DavFileSystem_create_dir(self, path) == notimplemented("create_dir")
DavFileSystem_remove_dir(self, path) == notimplemented("remove_dir")
DavFileSystem_remove_file(self, path) == notimplemented("remove_file")
DavFileSystem_rename(self, from, to) == notimplemented("rename")
DavFileSystem_copy(self, from, to) == notimplemented("copy")
DavFileSystem_set_accessed(self, path, tm) == notimplemented("set_accessed")
DavFileSystem_set_modified(self, path, tm) == notimplemented("set_accessed")
DavFileSystem_have_props(self, path) == FALSE
DavFileSystem_patch_props(self, path, set, remove) == notimplemented("patch_props")
DavFileSystem_get_props(self, path, do_content) == notimplemented("get_props")
DavFileSystem_get_prop(self, path, prop) == notimplemented("get_prop")
DavFileSystem_get_quota(self) == notimplemented("get_quota")

\* BoxCloneFs::box_clone and Clone for Box<DavFileSystem>
box_clone_deep(self, h) == [fs |-> Fs(Len(h) + 1), heap |-> Append(h, h[self.tree])]
box_clone(self, h) == Fs_clone(self, h)
clone(self, h) == box_clone(self, h)

(***************************************************************************)
(* SpecFs: one backend, the handles duplicated from the first one, and the *)
(* calls made through them.                                                *)
(***************************************************************************)
MaxHandles == 3

Props == {[name |-> "foo", prefix |-> None, namespace |-> None, xml |-> None]}

\* a call through handle number h, whose value is fs
Call(op, h, path, options, ret) ==
    [op |-> op, h |-> h, fs |-> handles[h], path |-> path, options |-> options, ret |-> ret]

InitFs == /\ heap = <<InitialTree>>
          /\ handles = <<Fs(1)>>
          /\ fcall = None
          /\ IdleMeta
          /\ IdleDir

\* Box<DavFileSystem>::clone() of handle i, for a new request
Clone(i) ==
    /\ Len(handles) < MaxHandles
    /\ LET r == clone(handles[i], heap)
       IN  handles' = Append(handles, r.fs) /\ heap' = r.heap
    /\ UNCHANGED <<overflow_checks, snap, etags, mcall, ent, eret, fcall>>

\* the request ends: its duplicate is dropped (the first handle lives on)
Drop ==
    /\ Len(handles) > 1
    /\ handles' = SubSeq(handles, 1, Len(handles) - 1)
    /\ UNCHANGED <<overflow_checks, snap, etags, mcall, ent, eret, heap, fcall>>

Open(i, path, preset) ==
    /\ fcall' = Call("open", i, path, [preset |-> preset, flags |-> Preset(preset)],
                     fs_open(handles[i], heap, path, Preset(preset)))
    /\ UNCHANGED <<overflow_checks, snap, etags, mcall, ent, eret, heap, handles>>

\* open(path, write + create + truncate), then the DavFile is written: l bytes at time t
Put(i, path, l, t) ==
    LET options == [OpenOptions_write EXCEPT !.create = TRUE, !.truncate = TRUE]
        r == fs_open(handles[i], heap, path, options)
    IN  /\ fcall' = Call("put", i, path, [preset |-> "custom", flags |-> options], r)
        /\ heap' = IF r.k = "ok"
                   THEN [heap EXCEPT ![handles[i].tree][path] = FileNode(l, t)]
                   ELSE heap
        /\ UNCHANGED <<overflow_checks, snap, etags, mcall, ent, eret, handles>>

ReadDir(i, path) ==
    /\ fcall' = Call("read_dir", i, path, None, fs_read_dir(handles[i], heap, path))
    /\ UNCHANGED <<overflow_checks, snap, etags, mcall, ent, eret, heap, handles>>

Metadata(i, path) ==
    /\ fcall' = Call("metadata", i, path, None, fs_metadata(handles[i], heap, path))
    /\ UNCHANGED <<overflow_checks, snap, etags, mcall, ent, eret, heap, handles>>

SymlinkMetadata(i, path) ==
    /\ fcall' = Call("symlink_metadata", i, path, None,
                     DavFileSystem_symlink_metadata(handles[i], heap, path))
    /\ UNCHANGED <<overflow_checks, snap, etags, mcall, ent, eret, heap, handles>>

OptionalOps == {"create_dir", "remove_dir", "remove_file", "rename", "copy", "set_accessed",
                "set_modified", "patch_props", "get_props", "get_prop", "get_quota"}

\* an optional operation, dispatched to the trait's default (the backend overrides none)
Optional(self, op, path, to, tm, prop, flag) ==
    CASE op = "create_dir" -> DavFileSystem_create_dir(self, path)
      [] op = "remove_dir" -> DavFileSystem_remove_dir(self, path)
      [] op = "remove_file" -> DavFileSystem_remove_file(self, path)
      [] op = "rename" -> DavFileSystem_rename(self, path, to)
      [] op = "copy" -> DavFileSystem_copy(self, path, to)
      [] op = "set_accessed" -> DavFileSystem_set_accessed(self, path, tm)
      [] op = "set_modified" -> DavFileSystem_set_modified(self, path, tm)
      [] op = "patch_props" -> DavFileSystem_patch_props(self, path, <<prop>>, <<>>)
      [] op = "get_props" -> DavFileSystem_get_props(self, path, flag)
      [] op = "get_prop" -> DavFileSystem_get_prop(self, path, prop)
      [] op = "get_quota" -> DavFileSystem_get_quota(self)

\* the further arguments an optional operation takes, besides self and path
OptionalArgs(op) ==
    {a \in [to : {Root, "/g"}, tm : WriteTimes, prop : Props, flag : BOOLEAN] :
        /\ op \notin {"rename", "copy"} => a.to = Root
        /\ op \notin {"set_accessed", "set_modified"} => a.tm = After(Duration(U64(<<1>>), 0))
        /\ op # "get_props" => a.flag = FALSE}

CallOptional(i, op, path) ==
    /\ \E a \in OptionalArgs(op) :
          fcall' = Call(op, i, path, None,
                        Optional(handles[i], op, path, a.to, a.tm, a.prop, a.flag))
    /\ UNCHANGED <<overflow_checks, snap, etags, mcall, ent, eret, heap, handles>>

HaveProps(i, path) ==
    /\ fcall' = Call("have_props", i, path, None,
                     DavFileSystem_have_props(handles[i], path))
    /\ UNCHANGED <<overflow_checks, snap, etags, mcall, ent, eret, heap, handles>>

NextFs ==
    \/ Drop
    \/ \E i \in 1..Len(handles) : Clone(i)
    \/ \E i \in 1..Len(handles), path \in Children, preset \in {"new", "read", "write"} :
          Open(i, path, preset)
    \/ \E i \in 1..Len(handles), path \in Children, l \in WriteLens, t \in WriteTimes :
          Put(i, path, l, t)
    \/ \E i \in 1..Len(handles), path \in Paths : ReadDir(i, path)
    \/ \E i \in 1..Len(handles), path \in Paths : Metadata(i, path)
    \/ \E i \in 1..Len(handles), path \in Paths : SymlinkMetadata(i, path)
    \/ \E i \in 1..Len(handles), path \in Paths : HaveProps(i, path)
    \/ \E i \in 1..Len(handles), path \in Children, op \in OptionalOps :
          CallOptional(i, op, path)

SpecFs == InitFs /\ [][NextFs]_vars

\* C1: on a backend that implements only open, read_dir and metadata, every
\* optional operation returns Err(NotImplemented), whatever its arguments and
\* whatever was called before, and have_props returns false.
C1_OptionalNotImplemented ==
    fcall # None =>
        /\ fcall.op \in OptionalOps => fcall.ret = Err("NotImplemented")
        /\ fcall.op = "have_props" => fcall.ret = FALSE

C1_Witness ==
    /\ fcall # None /\ fcall.op = "set_modified" /\ fcall.ret = Err("NotImplemented")
    /\ Len(handles) > 1
    /\ heap[1] # InitialTree

\* C4: without an override, symlink_metadata(path) returns what metadata(path)
\* returns on the same backend state: the same metadata, or the same error.
C4_SymlinkMetadataDelegates ==
    (fcall # None /\ fcall.op = "symlink_metadata") =>
        fcall.ret = fs_metadata(fcall.fs, heap, fcall.path)

C4_Witness ==
    /\ fcall # None /\ fcall.op = "symlink_metadata"
    /\ fcall.ret.k = "ok"
    /\ fcall.ret.v # InitialTree[fcall.path]

C8_OpenOptionsPresets ==
    (fcall # None /\ fcall.op = "open") =>
        LET o == fcall.options.flags
            others == ~o.append /\ ~o.truncate /\ ~o.create /\ ~o.create_new
        IN  /\ fcall.options.preset = "read" => (o.read /\ ~o.write /\ others)
            /\ fcall.options.preset = "write" => (~o.read /\ o.write /\ others)
            /\ fcall.options.preset = "new" => (~o.read /\ ~o.write /\ others)

C8_Witness ==
    /\ fcall # None /\ fcall.op = "open" /\ fcall.options.preset = "read"
    /\ fcall.options.flags.read
    /\ fcall.ret.k = "ok"

====
